---- MODULE Spec2Model ----
(***************************************************************************)
(* A model of the conversational agent runtime of agent_engine:            *)
(* BaseChatEngine (agent/base.py) and ContextualChatEngine                 *)
(* (agent/context_agent.py).  One agent instance, its conversation         *)
(* context, its task registry and the files it touches.                    *)
(***************************************************************************)
EXTENDS Integers, Sequences, FiniteSets, TLC

(***************************************************************************)
(* Bounds of the model.                                                    *)
(***************************************************************************)
\* number of generate_response calls in one run
MaxSubmits == 2
\* number of execute calls on one workflow
MaxRuns == 2
\* length of a catalogue and of a table saved by earlier runs
MaxRows == 2

(***************************************************************************)
(* Values.                                                                 *)
(***************************************************************************)
\* Python's None for an optional string: <<>>; a present string s: <<s>>.
None == <<>>
Some(s) == <<s>>

\* A path; the empty path stands for img_path=None (both are falsy in Python).
Path(d, n) == [dir |-> d, name |-> n]
NoPath == Path("", "")
Truthy(p) == p # NoPath

\* tmp_dir, the default of the constructor.
tmp_dir == "asset/tmp"

\* uuid.uuid4() values, as many as a run can draw plus one.
JobIds == 1..(MaxSubmits + 1)

\* os.path.join(self.tmp_dir, f"{job_id}.jpg")
TmpPath(job_id) == Path(tmp_dir, ToString(job_id) \o ".jpg")

\* Files the caller may name: an image, a file that is no image, no file.
ImgA == Path("data", "a.jpg")
Junk == Path("data", "notes.txt")
Missing == Path("data", "missing.jpg")
CallerPaths == {ImgA, Junk, Missing}
\* An entry left directly in the temp directory by someone else: a file or a
\* sub-directory.
Stray == Path(tmp_dir, "stray")
AllPaths == CallerPaths \cup {Stray} \cup {TmpPath(j) : j \in JobIds}

\* File contents; Absent is "no such file", Directory is a directory.
Absent == "<absent>"
Directory == "<dir>"
ImageContents == {"jpegA"}
\* Image.open(p).convert("RGB") followed by img.save(q): the re-encoded image.
Reencode(c) == "rgb(" \o c \o ")"
IsImage(c) == c \in ImageContents \/ c \in {Reencode(d) : d \in ImageContents}

Prompts == {"describe", "count"}
Outputs == {"a cat"}

\* Exceptions: a type and a message; str(e) is the message.
Exc(t, m) == [type |-> t, msg |-> m]
StrOf(e) == e.msg
NoExc == Exc("", "")
\* requests.post / raise_for_status / result['choices'][0]... failures
RemoteFailures == {Exc("HTTPError", "500 Server Error"), Exc("KeyError", "'choices'")}
\* failures inside processor.apply_chat_template / processor(...)
ProcessorFailures == {Exc("TypeError", "bad template input")}
\* failures of model.generate / batch_decode
GenerateFailures == {Exc("RuntimeError", "CUDA out of memory")}

(***************************************************************************)
(* Model identifiers, as sequences of tokens.                              *)
(***************************************************************************)
RemoteName == <<"http://host/v1", "@", "key", "@", "gpt">>
QwenName == <<"Qwen/", "Qwen2.5-VL", "-7B">>
PlainName == <<"llama-3">>
\* a remote descriptor whose model name holds a family pattern
RemoteQwenName == <<"http://host/v1", "@", "key", "@", "Qwen2.5-VL">>
ModelNames == {RemoteName, RemoteQwenName, QwenName, PlainName}

\* model_name.startswith('http')
StartsWithHttp(model_name) ==
    Len(model_name) > 0 /\ model_name[1] \in {"http://host/v1", "http://bad"}

\* pattern in model_name
Contains(model_name, pattern) == \E i \in 1..Len(model_name) : model_name[i] = pattern

ModelConfig(images, vllm) == [supports_images |-> images, supports_vllm |-> vllm]
\* MODEL_CONFIGS, in dictionary order
MODEL_CONFIGS == << [pattern |-> "Qwen2.5-VL", config |-> ModelConfig(TRUE, FALSE)] >>
DEFAULT_CONFIG == ModelConfig(FALSE, TRUE)

NoMatch(model_name, i) == [supports_images |-> FALSE, supports_vllm |-> TRUE]

RECURSIVE FirstMatch(_, _)
FirstMatch(model_name, i) ==
    IF i > Len(MODEL_CONFIGS) THEN DEFAULT_CONFIG
    ELSE IF Contains(model_name, MODEL_CONFIGS[i].pattern) THEN MODEL_CONFIGS[i].config
    ELSE FirstMatch(model_name, i + 1)

GetModelConfigByPattern(online, model_name) == FirstMatch(model_name, 1)

\* BaseChatEngine._get_model_config
GetModelConfig(online, model_name) ==
    IF online THEN DEFAULT_CONFIG ELSE FirstMatch(model_name, 1)

\* The use_vllm attribute after __init__: "unset" when no branch assigns it.
\*   enable: "None" | "True" | "False"; available: vllm imports;
\*   gpu: _check_gpu_compatibility(); init_ok: LLM(...) constructs.
ResolveUseVllm(online, config, enable, available, gpu, init_ok) ==
    IF enable = "None" THEN "False"
    ELSE IF enable = "True" /\ ~online
         THEN IF available /\ ~online /\ config.supports_vllm /\ gpu /\ init_ok
              THEN "True" ELSE "False"
    ELSE IF ~online THEN "False"
    ELSE "unset"

(***************************************************************************)
(* Messages.                                                               *)
(***************************************************************************)
language == "english"
\* self.language.upper()
Upper(s) == IF s = "english" THEN "ENGLISH" ELSE s

\* content that is a plain string
StrContent(t) == [form |-> "str", image |-> None, text |-> t]
ListContentTextOnly(img, t) == [form |-> "list", image |-> <<>>, text |-> t]

\* content that is a list of typed parts: an optional image part, then a text part
ListContent(img, t) == [form |-> "list", image |-> img, text |-> t]
Message(r, c) == [role |-> r, content |-> c]
\* a context entry that is a bare string and no message (has no role)
BareString(s) == [role |-> "", content |-> StrContent(s)]

\* prompt + f"\n\n(Please respond only in language {self.language.upper()})"
UserText(prompt) == prompt \o "\n\n(Please respond only in language " \o Upper(language) \o ")"

\* BaseChatEngine._init_system_prompt: the system message
SystemMessage(config, system_prompt) ==
    LET t == "(Please response only in language " \o Upper(language) \o ")\n\n" \o system_prompt
    IN  Message("system", IF config.supports_images THEN ListContent(None, t) ELSE StrContent(t))

VARIABLES
    is_online,      \* self.is_online
    model_config,   \* self.model_config
    use_vllm,       \* self.use_vllm
    processor,      \* self.processor is not None
    system_prompt,  \* self.system_prompt, None or a string
    context,        \* self.context
    tasks,          \* self.tasks: job_id -> task
    fs,             \* the filesystem: path -> content
    pc,             \* position of the caller: "idle", "remote_call", "process"
    cur,            \* the call in progress: job_id, prompt, img_path
    payload,        \* the messages last handed to a backend
    ret,            \* outcome of the last finished generate_response call
    ctx0,           \* self.context when the last generate_response call started
    issued,         \* uuid4 values drawn so far
    requests,       \* the calls made since construction or the last clear, with their outcomes
    last_op,        \* the operation that finished last
    ever_cleared,   \* clear_context has run since construction
    clear_out,      \* while clear_context is the last call made (done): the
                    \* exception it raised, if any, the paths it printed "Failed to
                    \* delete" for, and whether the call before it was a clear too
    init_call,      \* the __init__ call: its arguments, the environment it meets,
                    \* and its outcome once it has run
    wf,             \* a BaseWorkflow object and the execute call made on it
    crawl,          \* a BaikeSpeciesWorkflow run: catalogue, saved table, outcome
    pair            \* two agents with distinct temp directories on one filesystem

vars == <<is_online, model_config, use_vllm, processor, system_prompt, context,
          tasks, fs, pc, cur, payload, ret, ctx0, issued, requests,
          last_op, ever_cleared, clear_out, init_call, wf, crawl, pair>>

\* what lies around the one agent followed by the variables above
outer_vars == <<wf, crawl, pair>>

\* the one agent
agent_vars == <<is_online, model_config, use_vllm, processor, system_prompt, context,
                tasks, fs, pc, cur, payload, ret, ctx0, issued, requests,
                last_op, ever_cleared, clear_out, init_call>>

config_vars == <<is_online, model_config, use_vllm, processor, system_prompt, init_call,
                 outer_vars>>

Task(st, res, prompt, img) ==
    [status |-> st, result |-> res, prompt |-> prompt, image_path |-> img]

NoCall == [job_id |-> 0, prompt |-> "", img_path |-> NoPath]
NoRet == [kind |-> "none", status |-> "", result |-> None, prompt |-> "",
          image_path |-> NoPath, job_id |-> 0, exc |-> NoExc, backend |-> "not_called",
          cause |-> NoExc]

\* os.path.exists
Exists(p) == fs[p] # Absent

\* the files present when the agent is constructed
InitialContent(p) ==
    IF p = ImgA THEN "jpegA"
    ELSE IF p = Junk THEN "text"
    ELSE IF p = Stray THEN "bytes"
    ELSE Absent

\* what the stray entry of the temp directory is at construction: a file or a
\* sub-directory (clear_context removes the file, so its absence is reached too)
StrayContents == {InitialContent(Stray), Directory}

\* no clear_context call yet
NoClear == [done |-> FALSE, again |-> FALSE, exc |-> NoExc, failed |-> {}]
\* the outcome of a clear_context call
Cleared(e, failed) == [done |-> TRUE, again |-> clear_out.done, exc |-> e, failed |-> failed]

\* the __init__ call that led to the state is not followed
NotRecorded == [phase |-> "unrecorded"]

\* no workflow, no crawl and no second agent are followed
NoWorkflow == [pc |-> "none"]
NoCrawl == [pc |-> "none"]
NoPair == [pc |-> "none"]
Alone == wf = NoWorkflow /\ crawl = NoCrawl /\ pair = NoPair

(***************************************************************************)
(* Construction: the state after a successful __init__.                    *)
(***************************************************************************)
Init ==
    \E model_name \in ModelNames, enable \in {"None", "True", "False"},
       available \in BOOLEAN, gpu \in BOOLEAN, init_ok \in BOOLEAN,
       sp \in {None, Some("You are a helpful assistant")},
       stray \in StrayContents :
        /\ is_online = StartsWithHttp(model_name)
        /\ model_config = GetModelConfig(is_online, model_name)
        /\ use_vllm = ResolveUseVllm(is_online, model_config, enable, available, gpu, init_ok)
        /\ processor = (~is_online /\ use_vllm # "True")
        /\ system_prompt = sp
        /\ context = IF sp # None THEN <<SystemMessage(model_config, sp[1])>> ELSE <<>>
        /\ tasks = <<>>
        /\ fs = [p \in AllPaths |-> IF p = Stray THEN stray ELSE InitialContent(p)]
        /\ pc = "idle"
        /\ cur = NoCall
        /\ ret = NoRet
        /\ ctx0 = context
        /\ payload = <<>>
        /\ issued = {}
        /\ requests = <<>>
        /\ last_op = "__init__"
        /\ ever_cleared = FALSE
        /\ clear_out = NoClear
        /\ init_call = NotRecorded
        /\ Alone


(***************************************************************************)
(* Helpers of generate_response and _process_task.                         *)
(***************************************************************************)
\* f"{img_path}"
PathStr(p) == p.dir \o "/" \o p.name

\* f"data:image/jpeg;base64,{base64.b64encode(bytes).decode()}"
DataUrl(c) == "data:image/jpeg;base64," \o "b64(" \o c \o ")"

\* messages = self.context.copy(); messages.append(user_msg):
\* the request-local messages, and self.context after the two statements.
CopyThenAppend(ctx, msg) == [messages |-> Append(ctx, msg), context |-> ctx]

\* self.context.append({"role": "assistant", "content": [{"type": "text", ...}]})
RemoteAssistantTurn(ctx, output_text) ==
    Append(ctx, Message("assistant", ListContent(None, output_text)))

\* (mutation: the assistant turn is appended twice)
LocalAssistantTurnTwice(ctx, config, output_text) ==
    LET m == Message("assistant",
                     IF config.supports_images THEN ListContent(None, output_text)
                     ELSE StrContent(output_text))
    IN  Append(Append(ctx, m), m)

\* ai_msg of _process_task and self.context.append({"role": "assistant", ...})
LocalAssistantTurn(ctx, config, output_text) ==
    Append(ctx, Message("assistant",
                        IF config.supports_images THEN ListContent(None, output_text)
                        ELSE StrContent(output_text)))

\* job_id = str(uuid.uuid4()): a value not drawn before (which one is immaterial:
\* the least of them)
FreshJobIds == {j \in JobIds \ issued : \A k \in JobIds \ issued : j <= k}

\* a call as the caller made it, and how it ended:
\* "running", "completed", "error" or "raised"
Request(prompt, img_path, outcome) ==
    [prompt |-> prompt, img_path |-> img_path, outcome |-> outcome]
\* how a call with outcome record r ended
OutcomeOf(r) == IF r.kind = "raised" THEN "raised" ELSE r.status

\* (mutation: every entry of the registry aliases the one new task dict)
RegisterShared(registry, job_id, task) ==
    [j \in DOMAIN registry \cup {job_id} |-> task]

\* self.tasks[job_id] = {...}
Register(registry, job_id, task) == (job_id :> task) @@ registry

\* the dict generate_response returns
\* (backend: "not_called", "ok" or "failed", with the exception it failed with)
Returned(st, res, prompt, img, job_id, backend, cause) ==
    [kind |-> "returned", status |-> st, result |-> res, prompt |-> prompt,
     image_path |-> img, job_id |-> job_id, exc |-> NoExc, backend |-> backend,
     cause |-> cause]
\* an exception leaving generate_response
Raised(e, prompt, job_id, backend, cause) ==
    [kind |-> "raised", status |-> "", result |-> None, prompt |-> prompt,
     image_path |-> NoPath, job_id |-> job_id, exc |-> e, backend |-> backend,
     cause |-> cause]

\* self.tasks[job_id]['status'] = 'completed'; self.tasks[job_id]['result'] = output_text
CompleteTask(task, output_text) ==
    [task EXCEPT !.status = "completed", !.result = Some(output_text)]

\* (mutation: the status is set, the result is not)
FailTaskNoResult(task, e) ==
    [task EXCEPT !.status = "error"]

\* self.tasks[job_id]['status'] = 'error'; self.tasks[job_id]['result'] = str(e)
FailTask(task, e) ==
    [task EXCEPT !.status = "error", !.result = Some(StrOf(e))]

\* what a backend call can do: produce text, or raise
Ok(t) == [ok |-> TRUE, text |-> t, exc |-> NoExc]
Fail(e) == [ok |-> FALSE, text |-> "", exc |-> e]

\* the try block of the online branch: requests.post, raise_for_status, json, indexing
RemoteOutcomes == {Ok(o) : o \in Outputs} \cup {Fail(e) : e \in RemoteFailures}

\* the try block of _process_task for a task with image path img, in order:
\* Image.open of the task's image, the processor (or self.tokenizer, an attribute
\* no class defines), model.generate and batch_decode.
LocalOutcomes(img) ==
    IF Truthy(img) /\ model_config.supports_images /\ ~IsImage(fs[img])
    THEN {Fail(Exc("UnidentifiedImageError", "cannot identify image file " \o PathStr(img)))}
    ELSE IF ~processor
    THEN {Fail(Exc("AttributeError", "object has no attribute 'tokenizer'"))}
    ELSE {Fail(Exc("ValueError", "Failed to process inputs: " \o StrOf(e))) :
              e \in ProcessorFailures}
         \cup {Fail(e) : e \in GenerateFailures}
         \cup {Ok(o) : o \in Outputs}

\* the end of the generate_response(prompt, img_path) call, with outcome r
Finish(r, prompt, img_path) ==
    /\ ret' = r
    /\ pc' = "idle"
    /\ cur' = NoCall
    /\ requests' = Append(requests, Request(prompt, img_path, OutcomeOf(r)))
    /\ last_op' = "generate_response"

(***************************************************************************)
(* generate_response, online branch, up to the request.                    *)
(***************************************************************************)
GenerateResponseOnline(prompt, img_path) ==
    /\ pc = "idle"
    /\ is_online
    /\ Cardinality(issued) < MaxSubmits
    /\ \E job_id \in FreshJobIds, readable \in BOOLEAN :
        LET with_image == model_config.supports_images /\ Truthy(img_path)
            content == ListContent(IF with_image THEN Some(DataUrl(fs[img_path])) ELSE None,
                                   UserText(prompt))
            built == CopyThenAppend(context, Message("user", content))
        IN  /\ issued' = issued \cup {job_id}
            /\ ctx0' = context
            /\ IF with_image /\ ~Exists(img_path)
               THEN /\ Finish(Returned("error", Some("Image file not found: " \o PathStr(img_path)),
                                       prompt, img_path, job_id, "not_called", NoExc),
                            prompt, img_path)
                    /\ UNCHANGED <<context, payload>>
               ELSE IF with_image /\ ~readable
               THEN /\ Finish(Returned("error", Some("Failed to process image: Permission denied"),
                                       prompt, img_path, job_id, "not_called", NoExc),
                            prompt, img_path)
                    /\ UNCHANGED <<context, payload>>
               ELSE /\ payload' = built.messages
                    /\ context' = built.context
                    /\ pc' = "remote_call"
                    /\ cur' = [job_id |-> job_id, prompt |-> prompt, img_path |-> img_path]
                    /\ UNCHANGED <<ret, requests, last_op>>
    /\ clear_out' = NoClear
    /\ UNCHANGED <<config_vars, tasks, fs, ever_cleared>>

(***************************************************************************)
(* generate_response, online branch: the request and its result.           *)
(***************************************************************************)
RemoteCall ==
    /\ pc = "remote_call"
    /\ \E outcome \in RemoteOutcomes :
        IF outcome.ok
        THEN /\ context' = RemoteAssistantTurn(context, outcome.text)
             /\ Finish(Returned("completed", Some(outcome.text), cur.prompt, cur.img_path,
                                cur.job_id, "ok", NoExc), cur.prompt, cur.img_path)
        ELSE /\ context' = context
             /\ Finish(Returned("error", Some(StrOf(outcome.exc)), cur.prompt, cur.img_path,
                                cur.job_id, "failed", outcome.exc), cur.prompt, cur.img_path)
    /\ UNCHANGED <<config_vars, tasks, fs, payload, ctx0, issued, ever_cleared, clear_out>>

(***************************************************************************)
(* generate_response, local branch: materialize the image, register the    *)
(* task.                                                                   *)
(***************************************************************************)
GenerateResponseLocal(prompt, img_path) ==
    /\ pc = "idle"
    /\ ~is_online
    /\ Cardinality(issued) < MaxSubmits
    /\ \E job_id \in FreshJobIds, save_ok \in BOOLEAN :
        LET with_image == model_config.supports_images /\ Truthy(img_path)
            stored == IF with_image THEN TmpPath(job_id) ELSE img_path
        IN  /\ issued' = issued \cup {job_id}
            /\ ctx0' = context
            /\ IF with_image /\ ~Exists(img_path)
               THEN /\ Finish(Raised(Exc("FileNotFoundError", "No such file or directory: "
                                         \o PathStr(img_path)), prompt, job_id, "not_called", NoExc),
                            prompt, img_path)
                    /\ UNCHANGED <<tasks, fs>>
               ELSE IF with_image /\ ~IsImage(fs[img_path])
               THEN /\ Finish(Raised(Exc("UnidentifiedImageError", "cannot identify image file "
                                         \o PathStr(img_path)), prompt, job_id, "not_called", NoExc),
                            prompt, img_path)
                    /\ UNCHANGED <<tasks, fs>>
               ELSE IF with_image /\ ~save_ok
               THEN /\ Finish(Raised(Exc("OSError", "cannot write " \o PathStr(stored)),
                                     prompt, job_id, "not_called", NoExc), prompt, img_path)
                    /\ UNCHANGED <<tasks, fs>>
               ELSE /\ fs' = IF with_image
                             THEN [fs EXCEPT ![stored] = Reencode(fs[img_path])]
                             ELSE fs
                    /\ tasks' = Register(tasks, job_id, Task("pending", None, prompt, stored))
                    /\ pc' = "process"
                    /\ cur' = [job_id |-> job_id, prompt |-> prompt, img_path |-> img_path]
                    /\ UNCHANGED <<ret, requests, last_op>>
    /\ clear_out' = NoClear
    /\ UNCHANGED <<config_vars, context, payload, ever_cleared>>

(***************************************************************************)
(* _process_task.                                                          *)
(***************************************************************************)
\* (mutation: the except block removes nothing)
NoErrorCleanup(img_path) == {}

\* the except block's "if img_path and os.path.exists(img_path): os.remove(img_path)"
ErrorCleanupTarget(img_path) == IF Truthy(img_path) /\ Exists(img_path) THEN {img_path} ELSE {}

ProcessTask ==
    /\ pc = "process"
    /\ LET job_id == cur.job_id
           task == tasks[job_id]
           img_path == task.image_path
           prompt == task.prompt
           with_image == Truthy(img_path) /\ model_config.supports_images
           user_content == IF with_image
                           THEN ListContent(Some(fs[img_path]), UserText(prompt))
                           ELSE StrContent(UserText(prompt))
           built == CopyThenAppend(context, Message("user", user_content))
       IN  \E outcome \in LocalOutcomes(img_path), remove_ok \in BOOLEAN :
            /\ payload' = IF processor /\ (with_image => IsImage(fs[img_path]))
                          THEN built.messages ELSE payload
            /\ IF outcome.ok
               THEN /\ tasks' = [tasks EXCEPT ![job_id] = CompleteTask(task, outcome.text)]
                    /\ context' = LocalAssistantTurn(built.context, model_config, outcome.text)
                    /\ fs' = fs
                    /\ Finish(Returned("completed", tasks'[job_id].result, prompt, img_path,
                                       job_id, "ok", NoExc), cur.prompt, cur.img_path)
               ELSE /\ tasks' = [tasks EXCEPT ![job_id] = FailTask(task, outcome.exc)]
                    /\ context' = built.context
                    /\ IF ErrorCleanupTarget(img_path) = {}
                       THEN /\ fs' = fs
                            /\ Finish(Returned("error", tasks'[job_id].result, prompt,
                                               img_path, job_id, "failed", outcome.exc),
                                      cur.prompt, cur.img_path)
                       ELSE IF remove_ok
                       THEN /\ fs' = [p \in AllPaths |->
                                        IF p \in ErrorCleanupTarget(img_path)
                                        THEN Absent ELSE fs[p]]
                            /\ Finish(Returned("error", tasks'[job_id].result, prompt,
                                               img_path, job_id, "failed", outcome.exc),
                                      cur.prompt, cur.img_path)
                       ELSE /\ fs' = fs
                            /\ Finish(Raised(Exc("PermissionError", "Permission denied: "
                                                 \o PathStr(img_path)), prompt, job_id,
                                             "failed", outcome.exc),
                                      cur.prompt, cur.img_path)
    /\ UNCHANGED <<config_vars, ctx0, issued, ever_cleared, clear_out>>

(***************************************************************************)
(* clear_context.                                                          *)
(***************************************************************************)
\* the paths of the tasks that have an image_path
TaskFiles == {tasks[j].image_path : j \in DOMAIN tasks} \ {NoPath}

\* os.listdir(self.tmp_dir) on filesystem f
ListTmp(f) == {p \in AllPaths : p.dir = tmp_dir /\ f[p] # Absent}

ContextExtended == Append(context, BareString("cleared"))

\* self.context = [self.system_prompt] if ... self.system_prompt else []
ClearedContext == IF system_prompt # None /\ system_prompt[1] # ""
                  THEN <<BareString(system_prompt[1])>> ELSE <<>>

RemoveNothing(f, targets, denied) == f

\* the filesystem after os.remove was tried on every path of targets,
\* failing on those in denied
RemoveAll(f, targets, denied) ==
    [p \in AllPaths |-> IF p \in targets /\ p \notin denied THEN Absent ELSE f[p]]

\* the paths os.remove cannot remove whatever the permissions: directories
Directories(f) == {p \in AllPaths : f[p] = Directory}

\* the paths of targets on which os.remove raises (FileNotFoundError,
\* PermissionError, IsADirectoryError: all OSError), given those it is denied on
FailedRemovals(f, targets, denied) ==
    {p \in targets : f[p] = Absent \/ p \in denied \/ p \in Directories(f)}

\* the sets of files the environment may refuse to delete during one call:
\* files the call attempts (the sweep only when the listing succeeds)
Deniable(listable) ==
    SUBSET {p \in AllPaths :
              /\ Exists(p) /\ fs[p] # Directory
              /\ p \in TaskFiles \/ (listable /\ p.dir = tmp_dir)}

\* the file removals of clear_context; listable: os.listdir(self.tmp_dir)
\* succeeds (it raises when tmp_dir is a regular file or a directory that may
\* not be read)
ClearFiles ==
    \E listable \in BOOLEAN : \E denied \in Deniable(listable) :
        LET fail1 == FailedRemovals(fs, TaskFiles, denied)
            after_tasks == RemoveAll(fs, TaskFiles, fail1)
            listed == ListTmp(after_tasks)
            fail2 == FailedRemovals(after_tasks, listed, denied)
        IN  IF listable
            THEN /\ fs' = RemoveAll(after_tasks, listed, fail2)
                 /\ clear_out' = Cleared(NoExc, fail1 \cup fail2)
            ELSE /\ fs' = after_tasks
                 /\ clear_out' = Cleared(Exc("PermissionError", "Permission denied: " \o tmp_dir),
                                          fail1)

\* clear_context
ClearContext ==
    /\ pc = "idle"
    /\ ClearFiles
    /\ context' = ClearedContext
    /\ tasks' = <<>>
    /\ requests' = <<>>
    /\ last_op' = "clear_context"
    /\ ever_cleared' = TRUE
    /\ UNCHANGED <<config_vars, pc, cur, payload, ret, ctx0, issued>>

Next ==
    \/ \E prompt \in Prompts, img_path \in CallerPaths \cup {NoPath} :
        GenerateResponseOnline(prompt, img_path)
    \/ RemoteCall
    \/ \E prompt \in Prompts, img_path \in CallerPaths \cup {NoPath} :
        GenerateResponseLocal(prompt, img_path)
    \/ ProcessTask
    \/ ClearContext

Spec == Init /\ [][Next]_vars

(***************************************************************************)
(* Construction, followed step by step: BaseChatEngine.__init__.           *)
(***************************************************************************)
\* identifiers given to the constructor
TwoPartName == <<"http://host/v1", "@", "key">>
NoAtName == <<"http://bad">>
FourPartName == <<"http://host/v1", "@", "key", "@", "gpt", "@", "x">>
EmptyKeyName == <<"http://host/v1", "@", "@", "gpt">>
EmptyModelName == <<"http://host/v1", "@", "key", "@">>
NearMissName == <<"Qwen/", "Qwen2-VL", "-7B">>
SuffixName == <<"local/", "Qwen2.5-VL">>
RemoteNames == {RemoteName, RemoteQwenName, TwoPartName, NoAtName, FourPartName, EmptyKeyName, EmptyModelName}
LocalNames == {QwenName, PlainName, NearMissName, SuffixName}

\* the tokens of s from position i to position j
Sub(s, i, j) == [k \in 1..(j - i + 1) |-> s[i + k - 1]]

\* the least position of "@" in s, 0 when there is none
FirstAt(s) ==
    IF \E i \in 1..Len(s) : s[i] = "@"
    THEN CHOOSE i \in 1..Len(s) : s[i] = "@" /\ \A k \in 1..(i - 1) : s[k] # "@"
    ELSE 0

\* s.split('@', maxsplit)
RECURSIVE Split(_, _)
Split(s, maxsplit) ==
    IF maxsplit = 0 \/ FirstAt(s) = 0 THEN <<s>>
    ELSE <<Sub(s, 1, FirstAt(s) - 1)>> \o Split(Sub(s, FirstAt(s) + 1, Len(s)), maxsplit - 1)

\* vllm_cfg: omitted (the default None), or a configuration whose enable is
\* None, True or False
VllmCfgs == {"omitted", "None", "True", "False"}
\* the device: no CUDA, CUDA with compute capability below 8, or 8 and above
Devices == {"none", "low", "high"}

\* what the constructor is called with and what it meets:
\*   has_qwen_vl: transformers provides Qwen2_5_VLForConditionalGeneration;
\*   available: import vllm succeeds; vllm_ok: LLM(...) constructs;
\*   hf_ok: from_pretrained succeeds
InitCalls ==
    [model_name : RemoteNames \cup LocalNames, vllm_cfg : VllmCfgs,
     system_prompt : {None, Some("You are a helpful assistant")},
     has_qwen_vl : BOOLEAN, available : BOOLEAN, device : Devices,
     vllm_ok : BOOLEAN, hf_ok : BOOLEAN]

AnyDevice(device) == TRUE

\* _check_gpu_compatibility: a capability below 8 is only warned about
CheckGpuCompatibility(device) == device # "none"

\* model_config.model_class is None
ModelClassMissing(config, has_qwen_vl) == config = MODEL_CONFIGS[1].config /\ ~has_qwen_vl

\* the messages printed by the branch on vllm_cfg.enable
EnableDiagnostics(online, enable, decided) ==
    IF enable = "None" THEN {"VLLM usage not specified, defaulting to False"}
    ELSE IF enable = "True" /\ ~online
         THEN IF decided = "True" THEN {"VLLM enabled for acceleration"}
              ELSE {"VLLM not available or not supported for this model"}
    ELSE IF ~online THEN {"VLLM disabled"}
    ELSE {}

LoadFailure == Exc("OSError", "model files not found")

\* the outcome of a call that raised e
InitRaised(a, e, diagnostics, use) ==
    [outcome |-> "raised", exc |-> e, diagnostics |-> diagnostics, use_vllm |-> use,
     model |-> "none", processor |-> FALSE, api |-> <<>>, context |-> <<>>]

\* the outcome of a call that returned
InitDone(a, diagnostics, use, model, proc, api) ==
    [outcome |-> "ok", exc |-> NoExc, diagnostics |-> diagnostics, use_vllm |-> use,
     model |-> model, processor |-> proc, api |-> api,
     context |-> IF a.system_prompt # None /\ a.system_prompt[1] # ""
                 THEN <<SystemMessage(GetModelConfig(StartsWithHttp(a.model_name), a.model_name),
                                      a.system_prompt[1])>>
                 ELSE <<>>]

\* _init_transformers_model, then the rest of __init__
InitTransformersModel(a, diagnostics) ==
    IF a.hf_ok
    THEN InitDone(a, diagnostics, "False", "transformers", TRUE, <<>>)
    ELSE InitRaised(a, LoadFailure, diagnostics, "False")

InitVllmModelNoFallback(a, diagnostics) ==
    IF a.vllm_ok
    THEN InitDone(a, diagnostics \cup {"VLLM initialization successful"}, "True", "vllm", FALSE, <<>>)
    ELSE InitRaised(a, Exc("RuntimeError", "engine failed to start"), diagnostics, "True")

\* _init_vllm_model, then the rest of __init__
InitVllmModel(a, diagnostics) ==
    IF a.vllm_ok
    THEN InitDone(a, diagnostics \cup {"VLLM initialization successful"}, "True", "vllm", FALSE, <<>>)
    ELSE LET r == InitTransformersModel(a, diagnostics \cup {"VLLM initialization failed",
                                                             "Rolling back to transformers"})
         IN  IF r.outcome = "ok" THEN r ELSE [r EXCEPT !.use_vllm = "True"]

\* __init__, from the branch on is_online (line 112) on
InitBackend(a, online, decided, diagnostics) ==
    IF online
    THEN LET parts == Split(a.model_name, 2)
         IN  IF Len(parts) # 3
             THEN InitRaised(a, Exc("ValueError", "Invalid model name for online mode."),
                             diagnostics, decided)
             ELSE InitDone(a, diagnostics, decided, "none", FALSE, parts)
    ELSE IF decided = "True" THEN InitVllmModel(a, diagnostics)
    ELSE InitTransformersModel(a, diagnostics)

\* __init__ as a whole: the outcome of the call a
InitOutcome(a) ==
    LET online == StartsWithHttp(a.model_name)
        config == GetModelConfig(online, a.model_name)
        decided == ResolveUseVllm(online, config, a.vllm_cfg, a.available,
                                  CheckGpuCompatibility(a.device), TRUE)
    IN  IF ~online /\ ModelClassMissing(config, a.has_qwen_vl)
        THEN InitRaised(a, Exc("ValueError", "Model is not properly supported"), {}, "unset")
        ELSE IF a.vllm_cfg = "omitted"
        THEN InitRaised(a, Exc("AttributeError", "'NoneType' object has no attribute 'enable'"),
                        {}, "unset")
        ELSE InitBackend(a, online, decided, EnableDiagnostics(online, a.vllm_cfg, decided))

\* before __init__: the arguments and the environment are fixed
BuildInit ==
    /\ init_call \in [phase : {"new"}, args : InitCalls]
    /\ is_online = FALSE
    /\ model_config = DEFAULT_CONFIG
    /\ use_vllm = "unset"
    /\ processor = FALSE
    /\ system_prompt = None
    /\ context = <<>>
    /\ tasks = <<>>
    /\ fs = [p \in AllPaths |-> InitialContent(p)]
    /\ pc = "new"
    /\ cur = NoCall
    /\ ret = NoRet
    /\ ctx0 = <<>>
    /\ payload = <<>>
    /\ issued = {}
    /\ requests = <<>>
    /\ last_op = "none"
    /\ ever_cleared = FALSE
    /\ clear_out = NoClear
    /\ Alone

\* __init__
Construct ==
    /\ pc = "new"
    /\ LET a == init_call.args
           r == InitOutcome(a)
       IN  /\ init_call' = [phase |-> "done", args |-> a, out |-> r]
           /\ is_online' = StartsWithHttp(a.model_name)
           /\ model_config' = GetModelConfig(is_online', a.model_name)
           /\ use_vllm' = r.use_vllm
           /\ processor' = r.processor
           /\ system_prompt' = a.system_prompt
           /\ context' = r.context
           /\ ctx0' = r.context
           /\ pc' = IF r.outcome = "ok" THEN "idle" ELSE "failed"
    /\ last_op' = "__init__"
    /\ UNCHANGED <<tasks, fs, cur, ret, payload, issued, requests, ever_cleared, clear_out,
                   outer_vars>>

\* __del__ of the object, built or half-built: clear_context, whose exception
\* is printed and dropped
Del ==
    /\ pc \in {"idle", "failed"}
    /\ ClearFiles
    /\ context' = ClearedContext
    /\ tasks' = <<>>
    /\ pc' = "deleted"
    /\ last_op' = "__del__"
    /\ UNCHANGED <<config_vars, cur, payload, ret, ctx0, issued, requests, ever_cleared>>

BuildNext ==
    \/ Construct
    \/ Del

BuildSpec == BuildInit /\ [][BuildNext]_vars

(***************************************************************************)
(* BaseWorkflow: execute, its hooks, bar and cleanup.                      *)
(***************************************************************************)
\* no agent is followed
NoAgent ==
    /\ is_online = FALSE
    /\ model_config = DEFAULT_CONFIG
    /\ use_vllm = "unset"
    /\ processor = FALSE
    /\ system_prompt = None
    /\ context = <<>>
    /\ tasks = <<>>
    /\ fs = [p \in AllPaths |-> InitialContent(p)]
    /\ pc = "none"
    /\ cur = NoCall
    /\ ret = NoRet
    /\ ctx0 = <<>>
    /\ payload = <<>>
    /\ issued = {}
    /\ requests = <<>>
    /\ last_op = "none"
    /\ ever_cleared = FALSE
    /\ clear_out = NoClear
    /\ init_call = NotRecorded

\* what a hook written by a subclass raises, when it raises
HookFailure == Exc("ValueError", "hook failed")
PostFailure == Exc("OSError", "post-processing failed")
\* what chat_engine.clear_context raises, when it raises
ClearFailure == Exc("PermissionError", "Permission denied: " \o tmp_dir)

\* self.agent: None, one agent, or a list of agents
AgentHoldings == {<<>>, <<"new">>, <<"new", "new">>}

\* what execute gave its caller
NoResult == [kind |-> "none", exc |-> NoExc]
ResultOf(e) == IF e = NoExc THEN [kind |-> "returned", exc |-> NoExc]
               ELSE [kind |-> "raised", exc |-> e]

\* the messages of bar()
AlreadyActive == "A live display is already active. Nested live displays are not allowed."
Unsupported == "Unsupported live_type. Choose 'status' or 'progress'."

\* the last bar() call: how it ended, and whether a scope was open when it was made
NoBar == [kind |-> "none", was_open |-> FALSE]

\* BaseWorkflow.__init__ and the subclass's choice of self.agent
WorkflowInit ==
    /\ NoAgent
    /\ crawl = NoCrawl
    /\ pair = NoPair
    /\ \E held \in AgentHoldings :
        wf = [pc |-> "idle", calls |-> <<>>, pending |-> NoExc, first |-> NoExc,
              out |-> NoResult, live_context |-> None, open |-> FALSE, bar_out |-> NoBar,
              agent |-> held, runs |-> 0]

\* execute is called
StartExecute ==
    /\ wf.pc \in {"idle", "done"}
    /\ wf.runs < MaxRuns
    /\ wf' = [wf EXCEPT !.pc = "pre", !.calls = <<>>, !.pending = NoExc, !.first = NoExc,
                        !.out = NoResult, !.bar_out = NoBar, !.runs = @ + 1,
                        !.agent = [i \in DOMAIN wf.agent |-> "used"]]
    /\ UNCHANGED <<agent_vars, crawl, pair>>

\* self._pre_execute(), and when it returns the call of self._execute
PreExecute ==
    /\ wf.pc = "pre"
    /\ \E e \in {NoExc, HookFailure} :
        wf' = IF e = NoExc
              THEN [wf EXCEPT !.pc = "exec", !.calls = @ \o <<"_pre_execute", "_execute">>]
              ELSE [wf EXCEPT !.pc = "handle", !.calls = Append(@, "_pre_execute"),
                              !.pending = e, !.first = e]
    /\ UNCHANGED <<agent_vars, crawl, pair>>

\* inside _execute: "with self.bar(live_type):" is reached. An exception of
\* bar() leaves _execute, through the scope that is open if there is one.
EnterBar(live_type) ==
    /\ wf.pc = "exec"
    /\ wf' = IF wf.live_context # None
             THEN [wf EXCEPT !.bar_out = [kind |-> "RuntimeError", was_open |-> wf.open],
                             !.open = FALSE, !.pc = "handle",
                             !.pending = Exc("RuntimeError", AlreadyActive),
                             !.first = Exc("RuntimeError", AlreadyActive)]
             ELSE IF live_type \notin {"status", "progress"}
             THEN [wf EXCEPT !.bar_out = [kind |-> "ValueError", was_open |-> wf.open],
                             !.pc = "handle",
                             !.pending = Exc("ValueError", Unsupported),
                             !.first = Exc("ValueError", Unsupported)]
             ELSE [wf EXCEPT !.bar_out = [kind |-> "entered", was_open |-> wf.open],
                             !.live_context = Some(live_type), !.open = TRUE]
    /\ UNCHANGED <<agent_vars, crawl, pair>>

\* the body of the with block ends: the generator resumes after its yield
LeaveBar ==
    /\ wf.pc = "exec"
    /\ wf.open
    /\ wf' = [wf EXCEPT !.open = FALSE, !.live_context = None]
    /\ UNCHANGED <<agent_vars, crawl, pair>>

\* the body of the with block raises: the exception is thrown into the
\* generator at its yield and leaves it; _execute catches it or not
LeaveBarByException ==
    /\ wf.pc = "exec"
    /\ wf.open
    /\ \E caught \in BOOLEAN :
        wf' = IF caught
              THEN [wf EXCEPT !.open = FALSE]
              ELSE [wf EXCEPT !.open = FALSE, !.pc = "handle",
                              !.pending = HookFailure, !.first = HookFailure]
    /\ UNCHANGED <<agent_vars, crawl, pair>>

\* _execute returns or raises, outside any with block
ExecuteEnds ==
    /\ wf.pc = "exec"
    /\ ~wf.open
    /\ \E e \in {NoExc, HookFailure} :
        wf' = IF e = NoExc
              THEN [wf EXCEPT !.pc = "post"]
              ELSE [wf EXCEPT !.pc = "handle", !.pending = e, !.first = e]
    /\ UNCHANGED <<agent_vars, crawl, pair>>

\* except Exception as e: self.handle_error(e); raise
HandleError ==
    /\ wf.pc = "handle"
    /\ wf' = [wf EXCEPT !.pc = "post", !.calls = Append(@, "handle_error")]
    /\ UNCHANGED <<agent_vars, crawl, pair>>

\* finally: self._post_execute()
PostExecute ==
    /\ wf.pc = "post"
    /\ \E e \in {NoExc, PostFailure} :
        wf' = IF e = NoExc
              THEN [wf EXCEPT !.pc = "cleanup", !.calls = Append(@, "_post_execute")]
              ELSE [wf EXCEPT !.pc = "done", !.calls = Append(@, "_post_execute"),
                              !.pending = e, !.out = ResultOf(e)]
    /\ UNCHANGED <<agent_vars, crawl, pair>>

\* self.cleanup(), the end of the finally block; k: the agent whose
\* clear_context raises (0: none does)
Cleanup ==
    /\ wf.pc = "cleanup"
    /\ \E k \in 0..Len(wf.agent) :
        LET e == IF k = 0 THEN wf.pending ELSE ClearFailure
        IN  wf' = [wf EXCEPT !.pc = "done", !.calls = Append(@, "cleanup"),
                            !.live_context = None,
                            !.agent = [i \in DOMAIN wf.agent |->
                                         IF k = 0 \/ i < k THEN "cleared" ELSE wf.agent[i]],
                            !.pending = e, !.out = ResultOf(e)]
    /\ UNCHANGED <<agent_vars, crawl, pair>>

WorkflowNext ==
    \/ StartExecute
    \/ PreExecute
    \/ \E live_type \in {"status", "progress", "plain"} : EnterBar(live_type)
    \/ LeaveBar
    \/ LeaveBarByException
    \/ ExecuteEnds
    \/ HandleError
    \/ PostExecute
    \/ Cleanup

WorkflowSpec == WorkflowInit /\ [][WorkflowNext]_vars

(***************************************************************************)
(* BaikeSpeciesWorkflow._execute over one catalogue and one save file.     *)
(***************************************************************************)
\* the marker of a failed attempt
Failed == "[WORKFLOW] Failed"
\* the latin names of the catalogue
Species == {"Panthera leo", "Ailuropoda melanoleuca"}

\* self._live_display is defined neither by BaseWorkflow (which has bar)
\* nor by BaikeSpeciesWorkflow
LiveDisplayDefined == FALSE

\* a row of the table: its latin-name column, its remaining columns, and
\* (not a column) the species whose attempt appended it
FormattedRow(latin_name) == [latin |-> latin_name, info |-> "found", of |-> latin_name]
ErrorRow(latin_name) == [latin |-> Failed, info |-> Failed, of |-> latin_name]
\* "[WORKFLOW] Failed" in str(row.values)
RowFailed(row) == Failed \in {row.latin, row.info}

\* existing_df[existing_df["拉丁名"] == latin_name]
MatchedRows(df, latin_name) ==
    LET Keep(row) == row.latin = latin_name IN SelectSeq(df, Keep)
\* existing_df[~((existing_df["拉丁名"] == latin_name) & failed)]
WithoutFailed(df, latin_name) ==
    LET Keep(row) == ~(row.latin = latin_name /\ RowFailed(row)) IN SelectSeq(df, Keep)

\* the species is skipped: it has matching rows and none of them is failed
Skipped(df, latin_name) ==
    /\ MatchedRows(df, latin_name) # <<>>
    /\ \A i \in DOMAIN MatchedRows(df, latin_name) : ~RowFailed(MatchedRows(df, latin_name)[i])

\* one pass of the for loop from species i on; answered[i]: query_species_info
\* and the formatting of its result succeed for species i
RECURSIVE CrawlLoop(_, _, _, _, _)
CrawlLoop(df, queried, species_list, answered, i) ==
    IF i > Len(species_list) THEN [df |-> df, queried |-> queried]
    ELSE LET latin_name == species_list[i]
             kept == IF MatchedRows(df, latin_name) # <<>>
                     THEN WithoutFailed(df, latin_name) ELSE df
         IN  IF Skipped(df, latin_name)
             THEN CrawlLoop(df, queried, species_list, answered, i + 1)
             ELSE CrawlLoop(Append(kept, IF answered[i] THEN FormattedRow(latin_name)
                                         ELSE ErrorRow(latin_name)),
                            queried \cup {latin_name}, species_list, answered, i + 1)

UpToMaxRows(S) == UNION {[1..n -> S] : n \in 0..MaxRows}
\* catalogues: each species at most once
Catalogues ==
    {c \in UpToMaxRows(Species) :
        c # <<>> /\ \A i, j \in DOMAIN c : i # j => c[i] # c[j]}
\* save files left by earlier runs: at most one row per species
SavedRows == {FormattedRow(sp) : sp \in Species} \cup {ErrorRow(sp) : sp \in Species}
SavedTables ==
    {t \in UpToMaxRows(SavedRows) : \A i, j \in DOMAIN t : i # j => t[i].of # t[j].of}

CrawlInit ==
    /\ NoAgent
    /\ wf = NoWorkflow
    /\ pair = NoPair
    /\ \E catalogue \in Catalogues, table \in SavedTables :
        crawl = [pc |-> "ready", catalogue |-> catalogue, table |-> table,
                 existing_df |-> <<>>, before |-> table, queried |-> {},
                 out |-> NoResult, runs |-> 0]

\* _execute up to the display: the catalogue and the save file are read
ReadTables ==
    /\ crawl.pc \in {"ready", "ended"}
    /\ crawl.runs < MaxRuns
    /\ crawl' = [crawl EXCEPT !.pc = "read", !.existing_df = crawl.table,
                              !.before = crawl.table, !.queried = {},
                              !.out = NoResult, !.runs = @ + 1]
    /\ UNCHANGED <<agent_vars, wf, pair>>

\* with self._live_display(live_type="progress") as progress: the loop
ProcessSpecies ==
    /\ crawl.pc = "read"
    /\ IF LiveDisplayDefined
       THEN \E answered \in [DOMAIN crawl.catalogue -> BOOLEAN] :
            LET r == CrawlLoop(crawl.existing_df, {}, crawl.catalogue, answered, 1)
            IN  crawl' = [crawl EXCEPT !.pc = "ended", !.existing_df = r.df, !.table = r.df,
                                      !.queried = r.queried, !.out = ResultOf(NoExc)]
       ELSE crawl' = [crawl EXCEPT !.pc = "ended",
                        !.out = ResultOf(Exc("AttributeError",
                                  "'BaikeSpeciesWorkflow' object has no attribute '_live_display'"))]
    /\ UNCHANGED <<agent_vars, wf, pair>>

CrawlNext ==
    \/ ReadTables
    \/ ProcessSpecies

CrawlSpec == CrawlInit /\ [][CrawlNext]_vars

(***************************************************************************)
(* Two local agents, each with its own temp directory, used in turn by one *)
(* caller: generate_response, clear_context and __del__ of each.           *)
(***************************************************************************)
Agents == {"a", "b"}
TmpDirOf(a) == "asset/tmp_" \o a
\* os.path.join(self.tmp_dir, f"{job_id}.jpg")
TmpPathOf(a, job_id) == Path(TmpDirOf(a), ToString(job_id) \o ".jpg")
PairPaths == {ImgA} \cup {TmpPathOf(a, j) : a \in Agents, j \in 1..MaxSubmits}
\* what a caller passes as img_path: nothing, its own image, or the
\* image_path of a task that an agent returned
PairInputs == {NoPath} \cup PairPaths

PairTask(st, img) == [status |-> st, image_path |-> img]
PairTaskFiles(agent) == {agent.tasks[i].image_path : i \in DOMAIN agent.tasks} \ {NoPath}
\* os.listdir(self.tmp_dir)
PairListTmp(f, a) == {p \in PairPaths : p.dir = TmpDirOf(a) /\ f[p] # Absent}
PairRemove(f, targets) == [p \in PairPaths |-> IF p \in targets THEN Absent ELSE f[p]]

\* the files that clear_context of agent a tries to remove
PairAttempted(a) ==
    {p \in PairPaths : /\ pair.files[p] # Absent
                       /\ p \in PairTaskFiles(pair.agents[a]) \/ p.dir = TmpDirOf(a)}

\* clear_context of agent a: the files of its tasks, then the entries of
\* its temp directory; listable: os.listdir succeeds; denied: the files
\* whose os.remove fails
PairCleared(a, listable, denied) ==
    LET agent == pair.agents[a]
        after_tasks == PairRemove(pair.files, PairTaskFiles(agent) \ denied)
        swept == IF listable
                 THEN PairRemove(after_tasks, PairListTmp(after_tasks, a) \ denied)
                 ELSE after_tasks
    IN  [files |-> swept,
         agent |-> [agent EXCEPT !.tasks = <<>>, !.context = <<>>]]

\* one step of agent a changed what the step before had left
Acted(a, agents, files) ==
    [pair EXCEPT !.agents = agents, !.files = files, !.actor = a,
                 !.prev_agents = pair.agents, !.prev_files = pair.files]

PairInit ==
    /\ NoAgent
    /\ wf = NoWorkflow
    /\ crawl = NoCrawl
    /\ \E images \in [Agents -> BOOLEAN] :
        LET agents == [a \in Agents |-> [supports_images |-> images[a], tasks |-> <<>>,
                                         context |-> <<>>, alive |-> TRUE]]
            files == [p \in PairPaths |-> IF p = ImgA THEN "jpegA" ELSE Absent]
        IN  pair = [pc |-> "running", agents |-> agents, files |-> files, issued |-> 0,
                    actor |-> "none", prev_agents |-> agents, prev_files |-> files]

\* agent a: generate_response(prompt, img_path), local branch, up to its return
PairSubmit(a, img_path) ==
    /\ pair.pc = "running"
    /\ pair.agents[a].alive
    /\ pair.issued < MaxSubmits
    /\ \E answered \in BOOLEAN, remove_ok \in BOOLEAN :
        LET agent == pair.agents[a]
            job_id == pair.issued + 1
            with_image == agent.supports_images /\ Truthy(img_path)
            stored == IF with_image THEN TmpPathOf(a, job_id) ELSE img_path
            written == IF with_image
                       THEN [pair.files EXCEPT ![stored] = Reencode(pair.files[img_path])]
                       ELSE pair.files
            removable == Truthy(stored) /\ written[stored] # Absent /\ remove_ok
        IN  pair' =
              IF with_image /\ pair.files[img_path] = Absent
              THEN [Acted(a, pair.agents, pair.files) EXCEPT !.issued = job_id]
              ELSE IF answered
              THEN [Acted(a, [pair.agents EXCEPT ![a] =
                                [agent EXCEPT !.tasks = Append(@, PairTask("completed", stored)),
                                              !.context = Append(@, "turn")]],
                          written) EXCEPT !.issued = job_id]
              ELSE [Acted(a, [pair.agents EXCEPT ![a] =
                                [agent EXCEPT !.tasks = Append(@, PairTask("error", stored))]],
                          IF removable THEN PairRemove(written, {stored}) ELSE written)
                      EXCEPT !.issued = job_id]
    /\ UNCHANGED <<agent_vars, wf, crawl>>

\* agent a: clear_context()
PairClear(a) ==
    /\ pair.pc = "running"
    /\ pair.agents[a].alive
    /\ \E listable \in BOOLEAN, denied \in SUBSET PairAttempted(a) :
        LET r == PairCleared(a, listable, denied)
        IN  pair' = Acted(a, [pair.agents EXCEPT ![a] = r.agent], r.files)
    /\ UNCHANGED <<agent_vars, wf, crawl>>

\* agent a is collected: __del__ calls clear_context
PairDel(a) ==
    /\ pair.pc = "running"
    /\ pair.agents[a].alive
    /\ \E listable \in BOOLEAN, denied \in SUBSET PairAttempted(a) :
        LET r == PairCleared(a, listable, denied)
        IN  pair' = Acted(a, [pair.agents EXCEPT ![a] = [r.agent EXCEPT !.alive = FALSE]],
                          r.files)
    /\ UNCHANGED <<agent_vars, wf, crawl>>

PairNext ==
    \/ \E a \in Agents, img_path \in PairInputs : PairSubmit(a, img_path)
    \/ \E a \in Agents : PairClear(a)
    \/ \E a \in Agents : PairDel(a)

PairSpec == PairInit /\ [][PairNext]_vars

(***************************************************************************)
(* Properties.                                                             *)
(***************************************************************************)
\* a generate_response call has just ended and nothing has run since
JustFinished == pc = "idle" /\ last_op = "generate_response"

\* the request of the call that ended last
LastRequest == requests[Len(requests)]

AssistantCount(ctx) == Cardinality({i \in 1..Len(ctx) : ctx[i].role = "assistant"})
IsPrefix(a, b) == Len(a) <= Len(b) /\ \A i \in 1..Len(a) : a[i] = b[i]
Terminal(st) == st \in {"completed", "error"}

\* C1: a generate_response call whose backend call failed returns status
\* 'error' with the string form of the failure as result, and leaves the
\* context as it was when the call started.
C1_BackendFailureIsErrorResult ==
    (JustFinished /\ ret.backend = "failed") =>
        /\ ret.kind = "returned"
        /\ ret.status = "error"
        /\ ret.result = Some(StrOf(ret.cause))
        /\ context = ctx0

\* C2: a call that returns 'completed' has appended exactly one assistant
\* message, the last of the context, whose text is the returned result; the
\* context is untouched while the backend call is pending; a call that
\* returns 'error' has appended no assistant message.
C2_AssistantTurnOnlyOnSuccess ==
    /\ (pc # "idle" => context = ctx0)
    /\ (JustFinished /\ ret.kind = "returned" /\ ret.status = "completed") =>
            /\ ret.backend = "ok"
            /\ IsPrefix(ctx0, context)
            /\ AssistantCount(context) = AssistantCount(ctx0) + 1
            /\ context[Len(context)].role = "assistant"
            /\ Some(context[Len(context)].content.text) = ret.result
    /\ (JustFinished /\ ret.kind = "returned" /\ ret.status = "error") =>
            /\ IsPrefix(ctx0, context)
            /\ AssistantCount(context) = AssistantCount(ctx0)

C2_Witness ==
    /\ JustFinished
    /\ ret.kind = "returned"
    /\ ret.status = "completed"
    /\ Len(requests) = 2
    /\ requests[1].outcome = "error"

\* C3: no generate_response call raises an exception to its caller.
C3_NeverRaises == ret.kind # "raised"

\* C4: a call that names an image file that does not exist, on a backend
\* that supports images, returns status 'error' and leaves the context
\* unchanged.
C4_MissingImageIsErrorResult ==
    (JustFinished /\ model_config.supports_images /\ LastRequest.img_path = Missing) =>
        /\ ret.kind = "returned"
        /\ ret.status = "error"
        /\ context = ctx0
        /\ Len(context) = Len(ctx0)

\* C5: after N calls on a freshly constructed agent, all of them completed,
\* the context holds (1 if a system prompt was given, else 0) + 2N messages.
C5_ContextLength ==
    (/\ pc = "idle"
     /\ ~ever_cleared
     /\ \A i \in 1..Len(requests) : requests[i].outcome = "completed") =>
        Len(context) = (IF system_prompt # None THEN 1 ELSE 0) + 2 * Len(requests)

\* C6: a task enters the registry in status pending, a pending task goes to
\* pending, completed or error only, and a task whose status is completed or
\* error keeps its status and its result for as long as it is in the registry.
C6_TerminalIsFinal ==
    [][/\ \A j \in DOMAIN tasks' \ DOMAIN tasks :
            tasks'[j].status = "pending" /\ tasks'[j].result = None
       /\ \A j \in DOMAIN tasks \cap DOMAIN tasks' :
            /\ Terminal(tasks[j].status) =>
                    /\ tasks'[j].status = tasks[j].status
                    /\ tasks'[j].result = tasks[j].result
            /\ tasks[j].status = "pending" =>
                    tasks'[j].status \in {"pending", "completed", "error"}]_vars

C6_Witness ==
    /\ pc = "process"
    /\ \E j \in DOMAIN tasks : tasks[j].status = "completed"
    /\ \E j \in DOMAIN tasks : tasks[j].status = "pending"

\* C7: with no call in progress, the registry holds exactly one task per
\* call made since the last clear, each with the prompt of its call.
C7_OneTaskPerRequest ==
    pc = "idle" =>
        /\ Cardinality(DOMAIN tasks) = Len(requests)
        /\ \A i \in 1..Len(requests) :
            \E j \in DOMAIN tasks : tasks[j].prompt = requests[i].prompt

\* C8: with no call in progress every task is completed or error, and in
\* every state a task has a result exactly when it is completed or error.
C8_TerminalWhenIdle ==
    /\ pc = "idle" => \A j \in DOMAIN tasks : Terminal(tasks[j].status)
    /\ \A j \in DOMAIN tasks : (tasks[j].result # None) <=> Terminal(tasks[j].status)

C8_Witness ==
    /\ pc = "idle"
    /\ ret.kind = "raised"
    /\ \E j \in DOMAIN tasks : tasks[j].status = "error"
    /\ \E j \in DOMAIN tasks : tasks[j].status = "completed"

\* C9: every file the caller can name outside the temp directory exists
\* with its original content, whatever calls and clears have run.
C9_CallerFilesUntouched ==
    \A p \in CallerPaths : fs[p] = InitialContent(p)

\* C10: when a call returns the error result of a failed generation for a
\* task that owns a materialized temp image, that file is gone and the task
\* is in the registry in status error.
C10_TempImageDeletedOnError ==
    (/\ JustFinished
     /\ ret.kind = "returned"
     /\ ret.status = "error"
     /\ ret.backend = "failed"
     /\ ret.image_path = TmpPath(ret.job_id)) =>
        /\ ~Exists(TmpPath(ret.job_id))
        /\ ret.job_id \in DOMAIN tasks
        /\ tasks[ret.job_id].status = "error"
        /\ tasks[ret.job_id].image_path = TmpPath(ret.job_id)

C10_Witness ==
    /\ JustFinished
    /\ ret.kind = "returned"
    /\ ret.status = "error"
    /\ ret.backend = "failed"
    /\ ret.image_path = TmpPath(ret.job_id)
    /\ ~Exists(TmpPath(ret.job_id))

(***************************************************************************)
(* clear_context.                                                          *)
(***************************************************************************)
\* the context built by the constructor
InitialContext ==
    IF system_prompt # None THEN <<SystemMessage(model_config, system_prompt[1])>> ELSE <<>>

\* the entries of the temp directory
TmpEntries == {p \in AllPaths : p.dir = tmp_dir /\ fs[p] # Absent}

\* this step is a clear_context call
ClearStep == pc = "idle" /\ issued' = issued /\ last_op' = "clear_context" /\ clear_out'.done

\* C11: clear_context raises nothing to its caller, whatever the state of the
\* agent and of the filesystem.
C11_ClearNeverRaises ==
    clear_out.done => clear_out.exc = NoExc

\* C12: a clear_context call made directly after another one, in an
\* environment that answers as it did the first time (the listing of the temp
\* directory succeeds or fails as before, and every entry whose deletion failed
\* and that is still there fails again), changes neither the context, nor the
\* task registry, nor any file.
C12_ClearIdempotent ==
    [][(/\ clear_out.done
        /\ ClearStep
        /\ clear_out'.exc = clear_out.exc
        /\ (TmpEntries \cap clear_out.failed) \subseteq clear_out'.failed)
       => (context' = context /\ tasks' = tasks /\ fs' = fs)]_vars

\* a second clear_context in a row has run, after a first one that had to
\* leave a task's temp image in place
C12_Witness ==
    /\ clear_out.done /\ clear_out.again /\ clear_out.exc = NoExc
    /\ \E p \in TmpEntries \cap clear_out.failed : p # Stray
    /\ issued # {}

\* C13: after clear_context the context is the one the constructor built:
\* the system message if a system prompt was configured, empty otherwise.
C13_ContextAsConstructed ==
    clear_out.done => context = InitialContext

\* C14: after clear_context has returned, the task registry is empty, and
\* every entry still in the temp directory (task images included) is one whose
\* deletion failed during the call.
C14_ClearedUnlessFailed ==
    (clear_out.done /\ clear_out.exc = NoExc) =>
        /\ tasks = <<>>
        /\ TmpEntries \subseteq clear_out.failed

\* a clear_context has returned after deleting one task image and failing on
\* another
C14_Witness ==
    /\ clear_out.done /\ clear_out.exc = NoExc
    /\ Cardinality(issued) = 2
    /\ \E p \in TmpEntries \cap clear_out.failed : p # Stray
    /\ \E j \in issued : fs[TmpPath(j)] = Absent

\* C15: every entry of the context is a message with role system, user or
\* assistant; at most one has role system, and it is the first.
C15_ContextWellFormed ==
    /\ \A i \in 1..Len(context) : context[i].role \in {"system", "user", "assistant"}
    /\ \A i \in 2..Len(context) : context[i].role # "system"

(***************************************************************************)
(* Construction.                                                           *)
(***************************************************************************)
\* __init__ has run
Built == init_call.phase = "done"

\* the identifier cut at every "@"
AllParts(model_name) == Split(model_name, Len(model_name))

\* nothing but the acceleration configuration can make the call fail
NothingElseFails(a) ==
    IF StartsWithHttp(a.model_name) THEN Len(Split(a.model_name, 2)) = 3
    ELSE a.hf_ok /\ ~ModelClassMissing(model_config, a.has_qwen_vl)

\* C16: with a remote identifier (and an acceleration configuration given),
\* __init__ returns exactly when the identifier has three '@'-delimited parts,
\* none of them empty; these are then api_url, api_key and api_model, and
\* otherwise the call raises ValueError.
C16_RemoteNameThreeParts ==
    (Built /\ is_online /\ init_call.args.vllm_cfg # "omitted") =>
        LET name == init_call.args.model_name
            well_formed == Len(AllParts(name)) = 3 /\ \A i \in 1..3 : AllParts(name)[i] # <<>>
        IN  /\ init_call.out.outcome = "ok" <=> well_formed
            /\ init_call.out.outcome = "ok" => init_call.out.api = AllParts(name)
            /\ init_call.out.outcome = "raised" => init_call.out.exc.type = "ValueError"

\* C17: with vllm_cfg omitted, or with its enable flag None, __init__ returns
\* (nothing else failing), acceleration is off, a diagnostic is printed, and a
\* local identifier gets the transformers backend.
C17_AccelerationOptional ==
    (Built /\ init_call.args.vllm_cfg \in {"omitted", "None"} /\ NothingElseFails(init_call.args)) =>
        /\ init_call.out.outcome = "ok"
        /\ use_vllm = "False"
        /\ init_call.out.diagnostics # {}
        /\ ~is_online => init_call.out.model = "transformers"

\* __init__ has called _init_vllm_model
VllmAttempted ==
    /\ Built /\ ~is_online /\ init_call.args.vllm_cfg = "True"
    /\ ~ModelClassMissing(model_config, init_call.args.has_qwen_vl)
    /\ init_call.args.available /\ model_config.supports_vllm /\ init_call.args.device # "none"

C19_FallbackToStandardLocal ==
    (Built /\ ~is_online /\ init_call.args.vllm_cfg = "True") =>
        LET a == init_call.args
            declined == ~model_config.supports_vllm \/ ~a.available \/ a.device = "none"
        IN  /\ declined => /\ init_call.out.model # "vllm"
                           /\ use_vllm # "True"
                           /\ init_call.out.outcome = "raised" => ~NothingElseFails(a)
            /\ (declined /\ NothingElseFails(a)) =>
                  /\ init_call.out.outcome = "ok"
                  /\ init_call.out.model = "transformers"
                  /\ use_vllm = "False"
                  /\ "VLLM not available or not supported for this model"
                        \in init_call.out.diagnostics
            /\ init_call.out.model = "vllm" => ~declined

\* acceleration was requested on a machine without CUDA, and the agent was
\* built on transformers
C19_Witness ==
    /\ Built /\ ~is_online /\ init_call.args.vllm_cfg = "True"
    /\ init_call.args.available /\ model_config.supports_vllm /\ init_call.args.device = "none"
    /\ pc = "idle" /\ init_call.out.model = "transformers"

\* C20: for a local identifier the capabilities are those of the first family
\* of the table whose pattern the identifier contains (the table has the one
\* family Qwen2.5-VL), and the default set (no images, vLLM allowed) when it
\* contains none; nothing but the identifier enters.
C20_FirstMatchWins ==
    (Built /\ ~is_online) =>
        model_config = IF Contains(init_call.args.model_name, "Qwen2.5-VL")
                       THEN [supports_images |-> TRUE, supports_vllm |-> FALSE]
                       ELSE [supports_images |-> FALSE, supports_vllm |-> TRUE]

\* an identifier that ends with the family pattern was resolved to the family
C20_Witness ==
    /\ Built /\ init_call.args.model_name = SuffixName
    /\ model_config.supports_images /\ ~model_config.supports_vllm

(***************************************************************************)
(* Payloads.                                                               *)
(***************************************************************************)
\* the user message of the payload last handed to a backend
UserMessage == payload[Len(payload)]

\* the call that ended last got as far as handing a payload to its backend
PayloadHanded ==
    /\ JustFinished
    /\ IF is_online THEN ret.backend # "not_called"
       ELSE ret.job_id \in DOMAIN tasks /\ processor

\* C22: an agent built from a remote descriptor has the default capabilities
\* (no images), never has use_vllm True nor a local processor, and none of
\* its payloads holds an image part, whatever its identifier contains and
\* whatever image the caller supplies.
C22_RemoteIsTextOnly ==
    is_online =>
        /\ model_config = [supports_images |-> FALSE, supports_vllm |-> TRUE]
        /\ use_vllm # "True"
        /\ ~processor
        /\ \A i \in 1..Len(payload) : payload[i].content.image = None

\* a remote agent is about to send the payload of a call that came with an
\* existing image
C22_Witness ==
    /\ is_online /\ pc = "remote_call" /\ cur.img_path = ImgA /\ Exists(ImgA)
    /\ payload # <<>>

\* C23: on an agent built with vLLM, a call whose engine did not fail returns
\* status 'completed' and leaves an assistant turn at the end of the context.
C23_AcceleratedCompletes ==
    (JustFinished /\ use_vllm = "True" /\ ret.cause \notin GenerateFailures) =>
        /\ ret.kind = "returned" /\ ret.status = "completed"
        /\ Len(context) > 0 /\ context[Len(context)].role = "assistant"

\* C24: on an image-capable agent, the payload of a call that came with an
\* image is the context as it was when the call started, followed by one user
\* message whose content is a list of an image part and a text part holding
\* the prompt.
C24_ImagePayload ==
    (PayloadHanded /\ model_config.supports_images /\ Truthy(LastRequest.img_path)) =>
        /\ Len(payload) = Len(ctx0) + 1
        /\ IsPrefix(ctx0, payload)
        /\ UserMessage.role = "user"
        /\ UserMessage.content.form = "list"
        /\ UserMessage.content.image # None
        /\ UserMessage.content.text = UserText(LastRequest.prompt)

\* the second call of an image-capable agent came with an image and completed
C24_Witness ==
    /\ PayloadHanded /\ model_config.supports_images /\ LastRequest.img_path = ImgA
    /\ ret.status = "completed" /\ Len(requests) = 2 /\ ctx0 # <<>>

\* C25: when the capabilities disallow images or no image comes with the
\* call, the content of the payload's user message is the plain prompt string,
\* on every backend.
C25_TextPayloadIsString ==
    /\ (pc = "remote_call" /\ (~model_config.supports_images \/ ~Truthy(cur.img_path))) =>
          UserMessage.content.form = "str"
    /\ (PayloadHanded /\ (~model_config.supports_images \/ ~Truthy(LastRequest.img_path))) =>
          UserMessage.content.form = "str"

\* C26: a call that comes with an image on an agent without image support
\* returns (it does not raise), its payload holds no image part, it is not
\* failed for the image's sake, and its task records the path the caller gave.
C26_ImageDroppedNotFatal ==
    (JustFinished /\ ~model_config.supports_images /\ Truthy(LastRequest.img_path)) =>
        /\ ret.kind = "returned"
        /\ ret.backend # "not_called"
        /\ \A i \in 1..Len(payload) : payload[i].content.image = None
        /\ ret.job_id \in DOMAIN tasks
        /\ tasks[ret.job_id].image_path = LastRequest.img_path

(***************************************************************************)
(* Rejected constructions.                                                 *)
(***************************************************************************)
\* C27: when __init__ rejects its arguments with ValueError (a malformed
\* remote descriptor, or a family whose model class is missing), every file
\* is as it was before the call, also after the half-built object is torn down.
C27_RejectedConstructionKeepsFiles ==
    (Built /\ init_call.out.exc.type = "ValueError") =>
        \A p \in AllPaths : fs[p] = InitialContent(p)

(***************************************************************************)
(* Workflows.                                                              *)
(***************************************************************************)
\* C28: when execute has ended, its calls were _pre_execute, _execute (if
\* _pre_execute returned), handle_error (if one of the two raised),
\* _post_execute and cleanup, in this order and once each; every agent held
\* has been cleared; and an exception of _pre_execute or _execute is the one
\* the caller gets.
C28_PhasesAlwaysRun ==
    wf.pc = "done" =>
        /\ wf.calls \in {<<"_pre_execute", "_execute", "_post_execute", "cleanup">>,
                         <<"_pre_execute", "handle_error", "_post_execute", "cleanup">>,
                         <<"_pre_execute", "_execute", "handle_error", "_post_execute",
                           "cleanup">>}
        /\ \A i \in DOMAIN wf.agent : wf.agent[i] = "cleared"
        /\ wf.first # NoExc => wf.out = [kind |-> "raised", exc |-> wf.first]

\* C29: _live_context is set exactly while a bar() scope is open, and bar()
\* raises RuntimeError only when called inside an open scope.
C29_LiveContextTracksScope ==
    /\ wf.live_context # None <=> wf.open
    /\ wf.bar_out.kind = "RuntimeError" => wf.bar_out.was_open

\* the rows the table holds for a species
RowsOf(table, sp) ==
    {i \in DOMAIN table : table[i].of = sp}
\* the species had a non-failed row when the run started
Done(sp) ==
    \E i \in RowsOf(crawl.before, sp) : ~RowFailed(crawl.before[i])

\* C30: when a run has ended, the species of the catalogue that had a
\* non-failed row were not queried, the others were queried, and the saved
\* table holds at most one row for each species of the catalogue.
C30_ResumeOneRowPerSpecies ==
    crawl.pc = "ended" =>
        \A i \in DOMAIN crawl.catalogue :
            LET sp == crawl.catalogue[i]
            IN  /\ Done(sp) <=> sp \notin crawl.queried
                /\ Cardinality(RowsOf(crawl.table, sp)) <= 1

(***************************************************************************)
(* Two agents.                                                             *)
(***************************************************************************)
\* C21: whatever one agent did last, the files of the other agent's temp
\* directory and the other agent's context and tasks are as they were.
C21_AgentsNeverCollide ==
    \A a \in Agents : \A b \in Agents \ {a} :
        pair.actor = a =>
            /\ \A p \in PairPaths :
                 p.dir = TmpDirOf(b) => pair.files[p] = pair.prev_files[p]
            /\ pair.agents[b] = pair.prev_agents[b]

====
